---------------------------- MODULE Spec2Model ----------------------------
(***************************************************************************)
(* Model of the envelope codec and the content cipher of R-Squared-js     *)
(* (src/unnamed/part_000).                                                 *)
(*                                                                         *)
(* Buffers are sequences of bytes (0..255); JavaScript strings are         *)
(* sequences of character codes.  Every exported function is one action:  *)
(* the action records the call, the arguments it handed to the ECDH       *)
(* primitive, and the value returned or the error thrown.                  *)
(***************************************************************************)
EXTENDS Integers, Sequences, FiniteSets, TLC

VARIABLES
    drawn,      \* nonces key.random32ByteBuffer() has handed out so far
    call,       \* the last call: its name and arguments
    prim,       \* what the last call handed to Aes.*_with_checksum
    ret,        \* what the last call returned or threw
    sent        \* the last encryption: its arguments and its output

vars == <<drawn, call, prim, ret, sent>>

---------------------------------------------------------------------------
(* Bounds of the model. *)

NumKeys == 2        \* key pairs 1..NumKeys
NumNonces == 2      \* distinct outputs the random source can produce
NumContentKeys == 2 \* distinct (key, iv) pairs randomBytes can produce
MaxBufLen == 1      \* longest plaintext buffer
MaxNonceLen == 3    \* longest nonce of a hand-built buffer envelope

(* Program constants. *)

NONCE_SIZE == 32                          \* key.random32ByteBuffer()
CONTENT_CIPHER_ALGORITHM_KEY_SIZE == 32
CONTENT_CIPHER_ALGORITHM_IV_SIZE == 16
CONTENT_CIPHER_ALGORITHM == "aes-256-cbc"
CONTENT_CIPHER_ALGORITHM_NOENCRYPT == "noencrypt"
BLOCK_SIZE == 16                          \* block of aes-256-cbc

---------------------------------------------------------------------------
(* Sequences and bytes. *)

Min(a, b) == IF a < b THEN a ELSE b
Max(a, b) == IF a < b THEN b ELSE a

\* buf.slice(start, end) of a Buffer: both ends clamped to the buffer.
Slice(buf, start, end) ==
    LET s == Min(Max(start, 0), Len(buf))
        e == Min(Max(end, 0), Len(buf))
    IN  IF e <= s THEN <<>> ELSE SubSeq(buf, s + 1, e)

\* Buffer.concat of a list of buffers.
RECURSIVE Concat(_)
Concat(list) ==
    IF list = <<>> THEN <<>> ELSE Head(list) \o Concat(Tail(list))

\* Position of the first occurrence of c in s at or after i, 0 when none.
RECURSIVE IndexFrom(_, _, _)
IndexFrom(s, c, i) ==
    IF i > Len(s) THEN 0 ELSE IF s[i] = c THEN i ELSE IndexFrom(s, c, i + 1)

IndexOf(s, c) == IndexFrom(s, c, 1)

RECURSIVE BitXor(_, _)
BitXor(a, b) ==
    IF a = 0 THEN b
    ELSE IF b = 0 THEN a
    ELSE ((a + b) % 2) + 2 * BitXor(a \div 2, b \div 2)

XorBytes(x, y) == [i \in 1..Len(x) |-> BitXor(x[i], y[i])]

---------------------------------------------------------------------------
(* Buffer.toString('base64') and Buffer.from(str, 'base64'). *)

B64Char(v) ==
    IF v < 26 THEN 65 + v
    ELSE IF v < 52 THEN 97 + (v - 26)
    ELSE IF v < 62 THEN 48 + (v - 52)
    ELSE IF v = 62 THEN 43
    ELSE 47

\* The value of a base64 (or base64url) character, 64 for any other.
UnBase64(c) ==
    IF c \in 65..90 THEN c - 65
    ELSE IF c \in 97..122 THEN c - 71
    ELSE IF c \in 48..57 THEN c + 4
    ELSE IF c \in {43, 45} THEN 62
    ELSE IF c \in {47, 95} THEN 63
    ELSE 64

RECURSIVE Base64Encode(_)
Base64Encode(b) ==
    IF Len(b) = 0 THEN <<>>
    ELSE IF Len(b) = 1 THEN
        <<B64Char(b[1] \div 4), B64Char((b[1] % 4) * 16), 61, 61>>
    ELSE IF Len(b) = 2 THEN
        <<B64Char(b[1] \div 4),
          B64Char((b[1] % 4) * 16 + b[2] \div 16),
          B64Char((b[2] % 16) * 4), 61>>
    ELSE
        <<B64Char(b[1] \div 4),
          B64Char((b[1] % 4) * 16 + b[2] \div 16),
          B64Char((b[2] % 16) * 4 + b[3] \div 64),
          B64Char(b[3] % 64)>> \o Base64Encode(SubSeq(b, 4, Len(b)))

\* The sextets of a run of legal characters, as bytes; spare bits are dropped.
RECURSIVE SextetsToBytes(_)
SextetsToBytes(v) ==
    IF Len(v) < 2 THEN <<>>
    ELSE IF Len(v) = 2 THEN <<v[1] * 4 + v[2] \div 16>>
    ELSE IF Len(v) = 3 THEN
        <<v[1] * 4 + v[2] \div 16, (v[2] % 16) * 16 + v[3] \div 4>>
    ELSE
        <<v[1] * 4 + v[2] \div 16,
          (v[2] % 16) * 16 + v[3] \div 4,
          (v[3] % 4) * 64 + v[4]>> \o SextetsToBytes(SubSeq(v, 5, Len(v)))

\* Node's decoder never throws: it stops at the first '=', skips every
\* character outside the alphabet, and ignores the spare bits of the last group.
Base64Decode(s) ==
    LET stop  == IndexOf(s, 61)
        body  == IF stop = 0 THEN s ELSE SubSeq(s, 1, stop - 1)
        legal == SelectSeq(body, LAMBDA c : UnBase64(c) < 64)
    IN  SextetsToBytes([i \in 1..Len(legal) |-> UnBase64(legal[i])])

---------------------------------------------------------------------------
(* Buffer.toString('hex') and Buffer.from(str, 'hex'). *)

HexChar(v) == IF v < 10 THEN 48 + v ELSE 87 + v

\* The value of a hex digit, 16 for any other character.
UnHex(c) ==
    IF c \in 48..57 THEN c - 48
    ELSE IF c \in 97..102 THEN c - 87
    ELSE IF c \in 65..70 THEN c - 55
    ELSE 16

HexEncode(b) ==
    [i \in 1..(2 * Len(b)) |->
        IF i % 2 = 1 THEN HexChar(b[(i + 1) \div 2] \div 16)
        ELSE HexChar(b[i \div 2] % 16)]

\* Node decodes pair by pair and stops, without throwing, at the first pair
\* that holds a character that is no hex digit; an odd last digit is dropped.
HexDecode(s) ==
    LET pairs == Len(s) \div 2
        good(i) == UnHex(s[2 * i - 1]) < 16 /\ UnHex(s[2 * i]) < 16
        n == IF \A i \in 1..pairs : good(i) THEN pairs
             ELSE (CHOOSE i \in 1..pairs :
                      ~good(i) /\ \A j \in 1..(i - 1) : good(j)) - 1
    IN  [i \in 1..n |-> UnHex(s[2 * i - 1]) * 16 + UnHex(s[2 * i])]

---------------------------------------------------------------------------
(* Buffer.from(str, 'utf-8') and Buffer.toString('utf-8'), for the         *)
(* characters below U+0800 (one or two bytes each).                         *)

RECURSIVE Utf8Encode(_)
Utf8Encode(s) ==
    IF s = <<>> THEN <<>>
    ELSE (IF s[1] < 128 THEN <<s[1]>>
          ELSE <<192 + s[1] \div 64, 128 + (s[1] % 64)>>) \o Utf8Encode(Tail(s))

\* A byte that starts no well-formed sequence decodes to U+FFFD.
RECURSIVE Utf8Decode(_)
Utf8Decode(b) ==
    IF b = <<>> THEN <<>>
    ELSE IF b[1] < 128 THEN <<b[1]>> \o Utf8Decode(Tail(b))
    ELSE IF b[1] \in 194..223 /\ Len(b) >= 2 /\ b[2] \in 128..191
        THEN <<(b[1] - 192) * 64 + (b[2] - 128)>>
                 \o Utf8Decode(SubSeq(b, 3, Len(b)))
    ELSE <<65533>> \o Utf8Decode(Tail(b))

---------------------------------------------------------------------------
(* JSON.stringify and JSON.parse over a small universe of JSON values:     *)
(* null, booleans, non-negative integers, strings, arrays of integers.     *)
(* A value is [t |-> type, v |-> payload], the payload a sequence.         *)

JNull == [t |-> "null", v |-> <<>>]
JBool(b) == [t |-> "bool", v |-> IF b THEN <<1>> ELSE <<0>>]
JNum(n) == [t |-> "num", v |-> <<n>>]
JStr(s) == [t |-> "str", v |-> s]
JArr(a) == [t |-> "arr", v |-> a]

RECURSIVE Digits(_)
Digits(n) == IF n < 10 THEN <<48 + n>> ELSE Digits(n \div 10) \o <<48 + (n % 10)>>

RECURSIVE Escape(_)
Escape(s) ==
    IF s = <<>> THEN <<>>
    ELSE (IF s[1] \in {34, 92} THEN <<92, s[1]>> ELSE <<s[1]>>)
             \o Escape(Tail(s))

RECURSIVE JoinDigits(_)
JoinDigits(a) ==
    IF a = <<>> THEN <<>>
    ELSE IF Len(a) = 1 THEN Digits(a[1])
    ELSE Digits(a[1]) \o <<44>> \o JoinDigits(Tail(a))

JSONstringify(o) ==
    CASE o.t = "null" -> <<110, 117, 108, 108>>
      [] o.t = "bool" -> IF o.v = <<1>> THEN <<116, 114, 117, 101>>
                         ELSE <<102, 97, 108, 115, 101>>
      [] o.t = "num"  -> Digits(o.v[1])
      [] o.t = "str"  -> <<34>> \o Escape(o.v) \o <<34>>
      [] o.t = "arr"  -> <<91>> \o JoinDigits(o.v) \o <<93>>

JFail == [ok |-> FALSE, val |-> JNull]
JOk(v) == [ok |-> TRUE, val |-> v]

IsNumberText(s) ==
    /\ Len(s) >= 1
    /\ \A i \in 1..Len(s) : s[i] \in 48..57
    /\ (Len(s) = 1 \/ s[1] # 48)

RECURSIVE NumberValue(_)
NumberValue(s) ==
    IF s = <<>> THEN 0
    ELSE 10 * NumberValue(SubSeq(s, 1, Len(s) - 1)) + (s[Len(s)] - 48)

\* The characters of a string body (the text between the quotes), or
\* <<-1>> when a quote is not escaped or an escape is not one we know.
RECURSIVE Unescape(_)
Unescape(s) ==
    IF s = <<>> THEN <<>>
    ELSE IF s[1] = 34 \/ s[1] < 32 THEN <<-1>>
    ELSE IF s[1] = 92 THEN
        IF Len(s) >= 2 /\ s[2] \in {34, 92} THEN
            LET rest == Unescape(SubSeq(s, 3, Len(s)))
            IN  IF rest = <<-1>> THEN rest ELSE <<s[2]>> \o rest
        ELSE <<-1>>
    ELSE LET rest == Unescape(Tail(s))
         IN  IF rest = <<-1>> THEN rest ELSE <<s[1]>> \o rest

\* The elements of "n,n,...,n", or <<-1>> when one is not a number.
RECURSIVE ParseElements(_)
ParseElements(s) ==
    LET comma == IndexOf(s, 44)
        first == IF comma = 0 THEN s ELSE SubSeq(s, 1, comma - 1)
    IN  IF ~IsNumberText(first) THEN <<-1>>
        ELSE IF comma = 0 THEN <<NumberValue(first)>>
        ELSE LET rest == ParseElements(SubSeq(s, comma + 1, Len(s)))
             IN  IF rest = <<-1>> THEN rest
                 ELSE <<NumberValue(first)>> \o rest

JSONparse(s) ==
    IF s = <<110, 117, 108, 108>> THEN JOk(JNull)
    ELSE IF s = <<116, 114, 117, 101>> THEN JOk(JBool(TRUE))
    ELSE IF s = <<102, 97, 108, 115, 101>> THEN JOk(JBool(FALSE))
    ELSE IF IsNumberText(s) THEN JOk(JNum(NumberValue(s)))
    ELSE IF Len(s) >= 2 /\ s[1] = 34 /\ s[Len(s)] = 34 THEN
        LET body == Unescape(SubSeq(s, 2, Len(s) - 1))
        IN  IF body = <<-1>> THEN JFail ELSE JOk(JStr(body))
    ELSE IF Len(s) >= 2 /\ s[1] = 91 /\ s[Len(s)] = 93 THEN
        IF Len(s) = 2 THEN JOk(JArr(<<>>))
        ELSE LET elems == ParseElements(SubSeq(s, 2, Len(s) - 1))
             IN  IF elems = <<-1>> THEN JFail ELSE JOk(JArr(elems))
    ELSE JFail

---------------------------------------------------------------------------
(* Results of a call: a returned value, or a thrown error with the place   *)
(* that threw it.  A returned buffer or string is in val, a returned       *)
(* object in obj, a returned content key in key.                           *)

\* A JavaScript value that is a string or null.
JsNull == [null |-> TRUE, str |-> <<>>]
JsString(s) == [null |-> FALSE, str |-> s]

NoKey == [algo |-> "", key |-> JsNull, iv |-> JsNull]

Ok(v) ==
    [ok |-> TRUE, val |-> v, obj |-> JNull, key |-> NoKey, err |-> "", site |-> ""]
OkObject(o) == [Ok(<<>>) EXCEPT !.obj = o]
OkKey(k) == [Ok(<<>>) EXCEPT !.key = k]
Throw(e, where) == [Ok(<<>>) EXCEPT !.ok = FALSE, !.err = e, !.site = where]

---------------------------------------------------------------------------
(* The ECDH primitive of ../../ecc (Aes.encrypt_with_checksum and          *)
(* Aes.decrypt_with_checksum), from its contract: the ciphertext is bound  *)
(* to the shared secret of the two key pairs and to the nonce, carries a   *)
(* checksum of the plaintext, and decryption fails when any of them does   *)
(* not match.  Key pair i has private key i and public key i.              *)

Keys == 1..NumKeys

SharedSecret(private_key, public_key) ==
    Min(private_key, public_key) * (NumKeys + 2) + Max(private_key, public_key)

RECURSIVE SumBytes(_)
SumBytes(b) == IF b = <<>> THEN 0 ELSE b[1] + SumBytes(Tail(b))

Checksum(plain) == (Len(plain) + SumBytes(plain)) % 256

SecretHeader(S, nonce) ==
    LET n == Utf8Encode(nonce)
    IN  <<S % 256, (Len(n) \div 256) % 256, Len(n) % 256>> \o n

encrypt_with_checksum(private_key, public_key, nonce, message) ==
    LET S == SharedSecret(private_key, public_key)
    IN  SecretHeader(S, nonce) \o <<Checksum(message)>>
            \o [i \in 1..Len(message) |-> (message[i] + S + i) % 256]

decrypt_with_checksum(private_key, public_key, nonce, message) ==
    LET S == SharedSecret(private_key, public_key)
        h == SecretHeader(S, nonce)
        body == SubSeq(message, Len(h) + 2, Len(message))
        plain == [i \in 1..Len(body) |-> (body[i] + 512 - S - i) % 256]
    IN  IF /\ Len(message) > Len(h)
           /\ SubSeq(message, 1, Len(h)) = h
           /\ message[Len(h) + 1] = Checksum(plain)
        THEN Ok(plain)
        ELSE Throw("DecryptionError", "primitive")

NoPrim == [fn |-> "none", private_key |-> 0, public_key |-> 0,
           nonce |-> <<>>, message |-> <<>>]
PrimCall(f, private_key, public_key, nonce, message) ==
    [fn |-> f, private_key |-> private_key, public_key |-> public_key,
     nonce |-> nonce, message |-> message]

---------------------------------------------------------------------------
(* The envelope codec. *)

\* key.random32ByteBuffer(): the buffers the random source can hand out
\* next.  The source is taken never to repeat an output.
Nonce32(k) == [i \in 1..NONCE_SIZE |-> (k * 89 + i * 7) % 256]
random32ByteBuffer(used) == {Nonce32(k) : k \in 1..NumNonces} \ used

\* str.split(':', 2): the string is cut at every ':' and the first two
\* pieces are kept.
Split2(str) ==
    LET first == IndexOf(str, 58)
        rest == SubSeq(str, first + 1, Len(str))
        second == IndexOf(rest, 58)
    IN  IF first = 0 THEN <<str>>
        ELSE <<SubSeq(str, 1, first - 1),
               IF second = 0 THEN rest ELSE SubSeq(rest, 1, second - 1)>>

\* Each codec function yields the primitive call it made and its result;
\* rnd is the buffer key.random32ByteBuffer() returned within the call.
encrypt_object_cached(obj, subject_private_key, operator_public_key, rnd) ==
    LET nonce == Base64Encode(Nonce32(1))
        message == Utf8Encode(JSONstringify(obj))
        cipherbuf == encrypt_with_checksum(
                         subject_private_key, operator_public_key, nonce, message)
    IN  [prim |-> PrimCall("encrypt_with_checksum", subject_private_key,
                           operator_public_key, nonce, message),
         ret |-> Ok(nonce \o <<58>> \o Base64Encode(cipherbuf))]

encrypt_object(obj, subject_private_key, operator_public_key, rnd) ==
    LET nonce == Base64Encode(rnd)
        message == Utf8Encode(JSONstringify(obj))
        cipherbuf == encrypt_with_checksum(
                         subject_private_key, operator_public_key, nonce, message)
    IN  [prim |-> PrimCall("encrypt_with_checksum", subject_private_key,
                           operator_public_key, nonce, message),
         ret |-> Ok(nonce \o <<58>> \o Base64Encode(cipherbuf))]

\* The nonce segment handed to the primitive after base64-decoding it.
decrypt_object_decoded_nonce(str, subject_public_key, operator_private_key) ==
    LET parts == Split2(str)
    IN  IF Len(parts) < 2
        THEN [prim |-> NoPrim, ret |-> Throw("ERR_INVALID_ARG_TYPE", "parse")]
        ELSE
          LET message == Base64Decode(parts[2])
              nonce == Base64Decode(parts[1])
              plainbuf == decrypt_with_checksum(
                  operator_private_key, subject_public_key, nonce, message)
              parsed == JSONparse(Utf8Decode(plainbuf.val))
          IN  [prim |-> PrimCall("decrypt_with_checksum", operator_private_key,
                                 subject_public_key, nonce, message),
               ret |-> IF ~plainbuf.ok THEN plainbuf
                       ELSE IF parsed.ok THEN OkObject(parsed.val)
                       ELSE Throw("SyntaxError", "json")]

decrypt_object(str, subject_public_key, operator_private_key) ==
    LET parts == Split2(str)
    IN  IF Len(parts) < 2
        \* parts[1] is undefined: Buffer.from(undefined, 'base64') throws
        THEN [prim |-> NoPrim, ret |-> Throw("ERR_INVALID_ARG_TYPE", "parse")]
        ELSE
          LET message == Base64Decode(parts[2])
              plainbuf == decrypt_with_checksum(
                  operator_private_key, subject_public_key, parts[1], message)
              parsed == JSONparse(Utf8Decode(plainbuf.val))
          IN  [prim |-> PrimCall("decrypt_with_checksum", operator_private_key,
                                 subject_public_key, parts[1], message),
               ret |-> IF ~plainbuf.ok THEN plainbuf
                       ELSE IF parsed.ok THEN OkObject(parsed.val)
                       ELSE Throw("SyntaxError", "json")]

\* Buffer.concat([ Buffer.from([ noncebuf.length ]), noncebuf, cipherbuf ])
BufferEnvelopeNoLength(noncebuf, cipherbuf) == Concat(<<noncebuf, cipherbuf>>)

BufferEnvelope(noncebuf, cipherbuf) ==
    Concat(<< <<Len(noncebuf) % 256>>, noncebuf, cipherbuf >>)

encrypt_buffer(buf, subject_private_key, operator_public_key, rnd) ==
    LET nonce == Base64Encode(rnd)
        cipherbuf == encrypt_with_checksum(
                         subject_private_key, operator_public_key, nonce, buf)
    IN  [prim |-> PrimCall("encrypt_with_checksum", subject_private_key,
                           operator_public_key, nonce, buf),
         ret |-> Ok(BufferEnvelope(rnd, cipherbuf))]

\* The nonce length taken as the program's usual 32 instead of read.
decrypt_buffer_fixed_length(buf, subject_public_key, operator_private_key) ==
    LET noncebuf == Slice(buf, 1, 1 + NONCE_SIZE)
        cipherbuf == Slice(buf, 1 + NONCE_SIZE, Len(buf))
        nonce == Base64Encode(noncebuf)
    IN  [prim |-> PrimCall("decrypt_with_checksum", operator_private_key,
                           subject_public_key, nonce, cipherbuf),
         ret |-> decrypt_with_checksum(
                     operator_private_key, subject_public_key, nonce, cipherbuf)]

\* On an empty buffer buf.slice(0, 1)[0] is undefined and 1 + undefined is
\* NaN, which slice() reads as 0.
decrypt_buffer(buf, subject_public_key, operator_private_key) ==
    LET empty == Len(buf) = 0
        noncebuf == IF empty THEN Slice(buf, 1, 0)
                    ELSE Slice(buf, 1, 1 + buf[1])
        cipherbuf == IF empty THEN Slice(buf, 0, Len(buf))
                     ELSE Slice(buf, 1 + buf[1], Len(buf))
        nonce == Base64Encode(noncebuf)
    IN  [prim |-> PrimCall("decrypt_with_checksum", operator_private_key,
                           subject_public_key, nonce, cipherbuf),
         ret |-> decrypt_with_checksum(
                     operator_private_key, subject_public_key, nonce, cipherbuf)]

---------------------------------------------------------------------------
(* The content cipher.  createCipheriv / createDecipheriv of the platform  *)
(* are modelled for aes-256-cbc: a keyed permutation of 16-byte blocks,    *)
(* chained through the IV, with PKCS#7 padding.                            *)

BlockEncrypt(key, b) ==
    [i \in 1..BLOCK_SIZE |->
        (b[(i % BLOCK_SIZE) + 1] + key[i] + key[i + BLOCK_SIZE]) % 256]

BlockDecrypt(key, c) ==
    [j \in 1..BLOCK_SIZE |->
        LET i == IF j = 1 THEN BLOCK_SIZE ELSE j - 1
        IN  (c[i] + 512 - key[i] - key[i + BLOCK_SIZE]) % 256]

RECURSIVE CbcEncrypt(_, _, _)
CbcEncrypt(key, prev, data) ==
    IF data = <<>> THEN <<>>
    ELSE LET c == BlockEncrypt(key, XorBytes(SubSeq(data, 1, BLOCK_SIZE), prev))
         IN  c \o CbcEncrypt(key, c, SubSeq(data, BLOCK_SIZE + 1, Len(data)))

RECURSIVE CbcDecrypt(_, _, _)
CbcDecrypt(key, prev, data) ==
    IF data = <<>> THEN <<>>
    ELSE LET c == SubSeq(data, 1, BLOCK_SIZE)
         IN  XorBytes(BlockDecrypt(key, c), prev)
                 \o CbcDecrypt(key, c, SubSeq(data, BLOCK_SIZE + 1, Len(data)))

Pkcs7Pad(b) ==
    LET n == BLOCK_SIZE - (Len(b) % BLOCK_SIZE) IN b \o [i \in 1..n |-> n]

\* The last ciphertext block of data, or prev when data is empty.
LastBlock(prev, data) ==
    IF data = <<>> THEN prev ELSE SubSeq(data, Len(data) - BLOCK_SIZE + 1, Len(data))

\* A transform: new PassThrough(), or a Cipheriv / Decipheriv with the bytes
\* it still holds (buf) and its chaining block (prev).
PassThrough == [kind |-> "PassThrough", key |-> <<>>, prev |-> <<>>, buf |-> <<>>]
Transform(kind, key, iv) == [kind |-> kind, key |-> key, prev |-> iv, buf |-> <<>>]

\* The checks of the platform on the sizes, for aes-256-cbc; iv is a
\* buffer or null.
CreateTransform(kind, key, iv) ==
    IF iv.null \/ Len(iv.str) = 0
        THEN Throw("ERR_CRYPTO_INVALID_IV", "construct")
    ELSE IF Len(iv.str) # CONTENT_CIPHER_ALGORITHM_IV_SIZE
        THEN Throw("ERR_CRYPTO_INVALID_IV", "construct")
    ELSE IF Len(key) # CONTENT_CIPHER_ALGORITHM_KEY_SIZE
        THEN Throw("ERR_CRYPTO_INVALID_KEYLEN", "construct")
    ELSE Ok(Transform(kind, key, iv.str))

createCipheriv(key, iv) == CreateTransform("Cipheriv", key, iv)
createDecipheriv(key, iv) == CreateTransform("Decipheriv", key, iv)

\* transform.update(input): the output and the transform afterwards.
TransformUpdate(transform, input) ==
    LET data == transform.buf \o input
        whole == (Len(data) \div BLOCK_SIZE) * BLOCK_SIZE
        \* a decipher keeps the last whole block back until final()
        n == IF transform.kind = "Decipheriv" /\ whole = Len(data)
             THEN Max(whole - BLOCK_SIZE, 0) ELSE whole
        now == SubSeq(data, 1, n)
        rest == SubSeq(data, n + 1, Len(data))
    IN  IF transform.kind = "PassThrough"
        \* a stream has no update method: "transform.update is not a function"
        THEN [res |-> Throw("TypeError", "transform"), transform |-> transform]
        ELSE IF transform.kind = "Cipheriv"
        THEN LET out == CbcEncrypt(transform.key, transform.prev, now)
             IN  [res |-> Ok(out),
                  transform |-> [transform EXCEPT !.buf = rest,
                                     !.prev = LastBlock(transform.prev, out)]]
        ELSE [res |-> Ok(CbcDecrypt(transform.key, transform.prev, now)),
              transform |-> [transform EXCEPT !.buf = rest,
                                 !.prev = LastBlock(transform.prev, now)]]

\* transform.final()
TransformFinal(transform) ==
    IF transform.kind = "PassThrough" THEN Throw("TypeError", "transform")
    ELSE IF transform.kind = "Cipheriv"
    THEN Ok(CbcEncrypt(transform.key, transform.prev, Pkcs7Pad(transform.buf)))
    ELSE IF Len(transform.buf) # BLOCK_SIZE
    THEN Throw("ERR_OSSL_WRONG_FINAL_BLOCK_LENGTH", "transform")
    ELSE LET p == XorBytes(BlockDecrypt(transform.key, transform.buf),
                           transform.prev)
             n == p[BLOCK_SIZE]
         IN  IF /\ n \in 1..BLOCK_SIZE
                /\ \A i \in (BLOCK_SIZE - n + 1)..BLOCK_SIZE : p[i] = n
             THEN Ok(SubSeq(p, 1, BLOCK_SIZE - n))
             ELSE Throw("ERR_OSSL_BAD_DECRYPT", "transform")

\* randomBytes(n): the k-th output the model lets the random source produce.
randomBytes(n, k) == [i \in 1..n |-> (k * 53 + i * 17 + n) % 256]

make_content_key(k) ==
    [algo |-> CONTENT_CIPHER_ALGORITHM,
     key |-> IF CONTENT_CIPHER_ALGORITHM_KEY_SIZE > 0
             THEN JsString(HexEncode(
                      randomBytes(CONTENT_CIPHER_ALGORITHM_KEY_SIZE, k)))
             ELSE JsNull,
     iv |-> IF CONTENT_CIPHER_ALGORITHM_IV_SIZE > 0
            THEN JsString(HexEncode(
                     randomBytes(CONTENT_CIPHER_ALGORITHM_IV_SIZE, k)))
            ELSE JsNull]

make_content_key_noencrypt ==
    [algo |-> CONTENT_CIPHER_ALGORITHM_NOENCRYPT, key |-> JsNull, iv |-> JsNull]

\* content_key.iv ? Buffer.from(content_key.iv, 'hex') : null
IvArgument(content_key) ==
    IF content_key.iv.null \/ content_key.iv.str = <<>> THEN JsNull
    ELSE JsString(HexDecode(content_key.iv.str))

\* The key cut or zero-filled to the size the algorithm wants.
make_content_cipher_stream_resized(content_key) ==
    IF content_key.algo = CONTENT_CIPHER_ALGORITHM_NOENCRYPT THEN Ok(PassThrough)
    ELSE LET raw == IF content_key.key.null THEN <<>>
                    ELSE HexDecode(content_key.key.str)
             key == [i \in 1..CONTENT_CIPHER_ALGORITHM_KEY_SIZE |->
                        IF i <= Len(raw) THEN raw[i] ELSE 0]
         IN  createCipheriv(key, IvArgument(content_key))

make_content_cipher_stream(content_key) ==
    IF content_key.algo = CONTENT_CIPHER_ALGORITHM_NOENCRYPT THEN Ok(PassThrough)
    \* Buffer.from(null, 'hex') throws
    ELSE IF content_key.key.null
        THEN Throw("ERR_INVALID_ARG_TYPE", "construct")
    ELSE createCipheriv(HexDecode(content_key.key.str), IvArgument(content_key))

\* The decipher built as a cipher.
make_content_decipher_stream_as_cipher(content_key) ==
    make_content_cipher_stream(content_key)

make_content_decipher_stream(content_key) ==
    IF content_key.algo = CONTENT_CIPHER_ALGORITHM_NOENCRYPT THEN Ok(PassThrough)
    ELSE IF content_key.key.null
        THEN Throw("ERR_INVALID_ARG_TYPE", "construct")
    ELSE createDecipheriv(HexDecode(content_key.key.str), IvArgument(content_key))

crypto_content_transform(transform, input) ==
    LET main == TransformUpdate(transform, input)
        final == TransformFinal(main.transform)
    IN  IF ~main.res.ok THEN main.res
        ELSE IF ~final.ok THEN final
        ELSE Ok(Concat(<<main.res.val, final.val>>))

encrypt_content(plain_content_buf, content_key) ==
    LET cipher == make_content_cipher_stream(content_key)
    IN  IF ~cipher.ok THEN cipher
        ELSE crypto_content_transform(cipher.val, plain_content_buf)

decrypt_content(cipher_content_buf, content_key) ==
    LET decipher == make_content_decipher_stream(content_key)
    IN  IF ~decipher.ok THEN decipher
        ELSE crypto_content_transform(decipher.val, cipher_content_buf)

---------------------------------------------------------------------------
(* Inputs of the calls. *)

Objects ==
    {JNull, JBool(TRUE), JNum(42), JStr(<<97, 58, 233, 34>>), JArr(<<7, 10>>)}

SampleBytes == {0, 255}
Buffers == UNION {[1..n -> SampleBytes] : n \in 0..MaxBufLen}

ContentBuffers ==
    Buffers \cup {[i \in 1..BLOCK_SIZE |-> i],
                  [i \in 1..(BLOCK_SIZE + 1) |-> 255 - i]}

ReplaceAt(s, p, c) == [s EXCEPT ![p] = c]
InsertAt(s, p, c) == SubSeq(s, 1, p - 1) \o <<c>> \o SubSeq(s, p, Len(s))

\* Envelope strings handed to decrypt_object, each with how it was made
\* from the envelope env that encrypt_object returned: one character of the
\* ciphertext segment replaced (by the next character of the alphabet, or
\* by '!'), the delimiter missing, a '!' inserted, a second ':' appended.
ObjectInputs(env) ==
    LET colon == IndexOf(env, 58)
        pad == IndexFrom(env, 61, colon + 1)
        last == IF pad = 0 THEN Len(env) ELSE pad - 1
        other(c) == IF UnBase64(c) < 64
                    THEN B64Char((UnBase64(c) + 1) % 64) ELSE 65
    IN  {[str |-> env, how |-> "valid"]}
        \cup UNION {{[str |-> ReplaceAt(env, p, c), how |-> "tamper"] :
                         c \in {other(env[p]), 33}} :
                     p \in {colon + 1, last, Len(env)}}
        \cup {[str |-> SubSeq(env, 1, colon - 1), how |-> "nodelim"],
              [str |-> <<>>, how |-> "nodelim"]}
        \cup {[str |-> InsertAt(env, p, 33), how |-> "badbase64"] :
                 p \in {1, colon + 1, Len(env)}}
        \cup {[str |-> env \o <<58, 81, 85, 74, 68>>, how |-> "extra"]}

\* A buffer envelope laid out by hand from a nonce and a ciphertext.
Layout(nonce, ciphertext) == <<Len(nonce)>> \o nonce \o ciphertext

\* Buffers handed to decrypt_buffer, made from the envelope env that
\* encrypt_buffer returned: one byte of the ciphertext changed, the envelope
\* cut inside its nonce, and its ciphertext laid out again behind a nonce
\* of another length.
BufferInputs(env) ==
    LET first == 2 + env[1]
        ciphertext == Slice(env, first - 1, Len(env))
        plain(b, h) == [buf |-> b, how |-> h, nonce |-> <<>>, ct |-> <<>>]
    IN  {plain(env, "valid"), plain(<<>>, "empty"),
         plain(Slice(env, 0, first - 2), "short"), plain(<<5, 1, 2>>, "short")}
        \cup {plain(ReplaceAt(env, p, (env[p] + 1) % 256), "tamper") :
                 p \in {first, Len(env)} \cap (1..Len(env))}
        \cup {[buf |-> Layout(n, c), how |-> "layout", nonce |-> n, ct |-> c] :
                 n \in {Slice(env, 1, 1 + k) : k \in 0..MaxNonceLen}
                          \cup {<<1, 2>>},
                 c \in {ciphertext, <<170, 187, 204>>}}

\* Content keys a caller can assemble: a key make_content_key() returns
\* with the key or the iv cut, extended, emptied or removed.
CraftedKeys ==
    LET good == make_content_key(1)
        k == good.key.str
        v == good.iv.str
    IN  {[good EXCEPT !.key = x] :
            x \in {JsNull, JsString(<<>>), JsString(SubSeq(k, 1, Len(k) - 2)),
                   JsString(k \o <<48, 48>>), JsString(k \o <<49>>),
                   JsString(ReplaceAt(k, 1, 122))}}
        \cup {[good EXCEPT !.iv = x] :
            x \in {JsNull, JsString(<<>>), JsString(SubSeq(v, 1, Len(v) - 2)),
                   JsString(v \o <<48, 48>>)}}

---------------------------------------------------------------------------
(* The state machine: one action per exported function.  A run is a        *)
(* series of encryptions (or of content keys made and content encrypted)   *)
(* followed by one decryption of what the last of them produced: a         *)
(* decryption leaves drawn and sent as they are, so a call after it would  *)
(* see what it sees without it.                                            *)

NoSent == [kind |-> "none", plain |-> <<>>, obj |-> JNull, s |-> 0, o |-> 0,
           rnd |-> <<>>, env |-> <<>>, key |-> NoKey, ok |-> FALSE]

Call(op, arg, how) ==
    [op |-> op, arg |-> arg, obj |-> JNull, how |-> how, private_key |-> 0,
     public_key |-> 0, rnd |-> <<>>, key |-> NoKey, nonce |-> <<>>, ct |-> <<>>]

DecryptOps == {"decrypt_object", "decrypt_buffer", "decrypt_content"}

Init ==
    /\ drawn = {}
    /\ call = Call("init", <<>>, "")
    /\ prim = NoPrim
    /\ ret = Ok(<<>>)
    /\ sent = NoSent

EncryptObject ==
    /\ call.op \notin DecryptOps
    /\ \E obj \in Objects, s \in Keys, o \in Keys,
          rnd \in random32ByteBuffer(drawn) :
        \E r \in {encrypt_object(obj, s, o, rnd)} :
            /\ drawn' = drawn \cup {rnd}
            /\ call' = [Call("encrypt_object", <<>>, "") EXCEPT !.obj = obj,
                           !.private_key = s, !.public_key = o, !.rnd = rnd]
            /\ prim' = r.prim
            /\ ret' = r.ret
            /\ sent' = [NoSent EXCEPT !.kind = "object", !.obj = obj, !.s = s,
                           !.o = o, !.rnd = rnd, !.env = r.ret.val, !.ok = r.ret.ok]

DecryptObject ==
    /\ call.op = "encrypt_object"
    /\ \E in \in ObjectInputs(sent.env), pub \in Keys, priv \in Keys :
        /\ in.how # "valid" => (pub = sent.s /\ priv = sent.o)
        /\ \E r \in {decrypt_object(in.str, pub, priv)} :
               /\ call' = [Call("decrypt_object", in.str, in.how) EXCEPT
                              !.private_key = priv, !.public_key = pub]
               /\ prim' = r.prim
               /\ ret' = r.ret
    /\ UNCHANGED <<drawn, sent>>

EncryptBuffer ==
    /\ call.op \notin DecryptOps
    /\ \E buf \in Buffers, s \in Keys, o \in Keys,
          rnd \in random32ByteBuffer(drawn) :
        \E r \in {encrypt_buffer(buf, s, o, rnd)} :
            /\ drawn' = drawn \cup {rnd}
            /\ call' = [Call("encrypt_buffer", buf, "") EXCEPT
                           !.private_key = s, !.public_key = o, !.rnd = rnd]
            /\ prim' = r.prim
            /\ ret' = r.ret
            /\ sent' = [NoSent EXCEPT !.kind = "buffer", !.plain = buf, !.s = s,
                           !.o = o, !.rnd = rnd, !.env = r.ret.val, !.ok = r.ret.ok]

DecryptBuffer ==
    /\ call.op = "encrypt_buffer"
    /\ \E in \in BufferInputs(sent.env), pub \in Keys, priv \in Keys :
        /\ in.how # "valid" => (pub = sent.s /\ priv = sent.o)
        /\ \E r \in {decrypt_buffer(in.buf, pub, priv)} :
               /\ call' = [Call("decrypt_buffer", in.buf, in.how) EXCEPT
                              !.private_key = priv, !.public_key = pub,
                              !.nonce = in.nonce, !.ct = in.ct]
               /\ prim' = r.prim
               /\ ret' = r.ret
    /\ UNCHANGED <<drawn, sent>>

MakeContentKey ==
    /\ call.op \notin DecryptOps
    /\ \E k \in 1..NumContentKeys :
        /\ call' = Call("make_content_key", <<>>, "")
        /\ ret' = OkKey(make_content_key(k))
    /\ prim' = NoPrim
    /\ UNCHANGED <<drawn, sent>>

MakeContentKeyNoencrypt ==
    /\ call.op \notin DecryptOps
    /\ call' = Call("make_content_key_noencrypt", <<>>, "")
    /\ ret' = OkKey(make_content_key_noencrypt)
    /\ prim' = NoPrim
    /\ UNCHANGED <<drawn, sent>>

\* The content keys at hand: the one the last call made, and the crafted.
KeysAtHand ==
    (IF call.op \in {"make_content_key", "make_content_key_noencrypt"}
     THEN {[key |-> ret.key, how |-> "made"]} ELSE {})
    \cup {[key |-> k, how |-> "crafted"] : k \in CraftedKeys}

EncryptContent ==
    /\ call.op \notin DecryptOps
    /\ \E buf \in ContentBuffers, k \in KeysAtHand :
        \E r \in {encrypt_content(buf, k.key)} :
            /\ call' = [Call("encrypt_content", buf, k.how) EXCEPT !.key = k.key]
            /\ ret' = r
            /\ sent' = [NoSent EXCEPT !.kind = "content", !.plain = buf,
                           !.env = r.val, !.key = k.key, !.ok = r.ok]
    /\ prim' = NoPrim
    /\ UNCHANGED drawn

DecryptContent ==
    /\ call.op = "encrypt_content"
    /\ \E k \in {[key |-> sent.key, how |-> "valid"]}
                   \cup {[key |-> c, how |-> "crafted"] : c \in CraftedKeys} :
        /\ call' = [Call("decrypt_content", sent.env, k.how) EXCEPT !.key = k.key]
        /\ ret' = decrypt_content(sent.env, k.key)
    /\ prim' = NoPrim
    /\ UNCHANGED <<drawn, sent>>

\* The envelope codec.
NextCodec ==
    \/ EncryptObject
    \/ DecryptObject
    \/ EncryptBuffer
    \/ DecryptBuffer

Spec == Init /\ [][NextCodec]_vars

\* The content cipher.
NextContent ==
    \/ MakeContentKey
    \/ MakeContentKeyNoencrypt
    \/ EncryptContent
    \/ DecryptContent

SpecContent == Init /\ [][NextContent]_vars

---------------------------------------------------------------------------
(* The claims. *)

\* The last call was a decryption of the envelope as sent, by the operator
\* (its private key) with the subject's public key.
IntendedDecryption(op) ==
    /\ call.op = op
    /\ call.how = "valid"
    /\ call.public_key = sent.s
    /\ call.private_key = sent.o

\* The errors of the taxonomy, by the place that raises them: the code
\* defines no error classes of its own.
IsDecryptionError(r) == ~r.ok /\ r.site \in {"primitive", "parse"}
IsKeyFormatError(r) ==
    /\ ~r.ok
    /\ r.site = "construct"
    /\ r.err \in {"ERR_CRYPTO_INVALID_KEYLEN", "ERR_CRYPTO_INVALID_IV",
                  "ERR_INVALID_ARG_TYPE"}

\* C1: decrypt_object, given the envelope encrypt_object returned for o
\* under (priv_s, pub_o), the subject's public key and the operator's
\* private key, returns a value equal to o, whatever the nonce was.
C1_ObjectRoundTrip ==
    IntendedDecryption("decrypt_object") => (ret.ok /\ ret.obj = sent.obj)

C1_Witness ==
    /\ IntendedDecryption("decrypt_object")
    /\ sent.s # sent.o
    /\ sent.obj = JStr(<<97, 58, 233, 34>>)
    /\ sent.rnd = Nonce32(2)
    /\ ret.ok

\* C2: decrypt_buffer, given the envelope encrypt_buffer returned for b,
\* returns exactly the bytes of b, the empty buffer included.
C2_BufferRoundTrip ==
    IntendedDecryption("decrypt_buffer") => (ret.ok /\ ret.val = sent.plain)

C2_Witness ==
    /\ IntendedDecryption("decrypt_buffer")
    /\ sent.plain = <<>>
    /\ sent.s # sent.o
    /\ ret.ok

MadeKeys == {make_content_key(k) : k \in 1..NumContentKeys}

\* C3: with a key k that make_content_key() returned, encrypt_content
\* succeeds and decrypt_content(encrypt_content(b, k), k) is b, the empty
\* buffer included; each call builds its own transform from k.
C3_ContentRoundTrip ==
    /\ (call.op = "encrypt_content" /\ call.key \in MadeKeys) => ret.ok
    /\ (call.op = "decrypt_content" /\ call.how = "valid"
            /\ call.key \in MadeKeys)
        => (ret.ok /\ ret.val = sent.plain)

C3_Witness ==
    /\ call.op = "decrypt_content"
    /\ call.how = "valid"
    /\ call.key \in MadeKeys
    /\ sent.plain = <<>>
    /\ ret.ok

\* C4: with the key of make_content_key_noencrypt(), encrypt_content(b, key)
\* returns b unchanged and decrypt_content returns b again.
C4_NoEncryptIdentity ==
    /\ (call.op = "encrypt_content" /\ call.key = make_content_key_noencrypt)
        => (ret.ok /\ ret.val = call.arg)
    /\ (call.op = "decrypt_content" /\ call.key = make_content_key_noencrypt)
        => (ret.ok /\ ret.val = sent.plain)

\* C5: when one byte of the ciphertext segment of a valid envelope is
\* changed, or the operator decrypts with a public key that is not the
\* subject's, decrypt_object / decrypt_buffer fail with a DecryptionError
\* and return nothing.
C5_NoSilentCorruption ==
    (/\ call.op \in {"decrypt_object", "decrypt_buffer"}
     /\ \/ call.how = "tamper"
        \/ /\ call.how = "valid"
           /\ call.public_key # sent.s
           /\ call.private_key = sent.o)
    => IsDecryptionError(ret)

\* C6: decrypt_object given a string without ':' or with a segment that is
\* not valid base64, and decrypt_buffer given an empty buffer or one whose
\* first byte exceeds the bytes that follow, fail with a DecryptionError.
C6_MalformedRejected ==
    (\/ call.op = "decrypt_object" /\ call.how \in {"nodelim", "badbase64"}
     \/ call.op = "decrypt_buffer" /\ call.how \in {"empty", "short"})
    => IsDecryptionError(ret)

\* The decoded key or iv of a real algorithm is absent or not of the size
\* the algorithm requires.
WrongSize(content_key) ==
    /\ content_key.algo = CONTENT_CIPHER_ALGORITHM
    /\ \/ content_key.key.null
       \/ Len(HexDecode(content_key.key.str)) # CONTENT_CIPHER_ALGORITHM_KEY_SIZE
       \/ content_key.iv.null
       \/ Len(HexDecode(content_key.iv.str)) # CONTENT_CIPHER_ALGORITHM_IV_SIZE

\* C7: with a content key of a real algorithm whose key or iv is absent or
\* of the wrong byte length, encrypt_content and decrypt_content fail with
\* a KeyFormatError raised while the transform is constructed, and return
\* no output.
C7_KeySizeChecked ==
    (call.op \in {"encrypt_content", "decrypt_content"} /\ WrongSize(call.key))
    => IsKeyFormatError(ret)

C7_Witness ==
    /\ call.op = "encrypt_content"
    /\ WrongSize(call.key)
    /\ ~call.key.key.null
    /\ Len(HexDecode(call.key.key.str)) = CONTENT_CIPHER_ALGORITHM_KEY_SIZE - 1
    /\ IsKeyFormatError(ret)

\* C8: the buffer envelope is the byte N, the N nonce bytes, the
\* ciphertext; encrypt_buffer emits it for the nonce it drew and the
\* ciphertext the primitive returned, and decrypt_buffer hands the
\* primitive the nonce and the ciphertext of any such layout, for every N.
C8_BufferLayout ==
    /\ BufferEnvelope(<<1, 2>>, <<170, 187, 204>>) = <<2, 1, 2, 170, 187, 204>>
    /\ call.op = "encrypt_buffer" =>
        /\ ret.ok
        /\ prim.nonce = Base64Encode(call.rnd)
        /\ ret.val = <<Len(call.rnd)>> \o call.rnd
                        \o encrypt_with_checksum(prim.private_key,
                               prim.public_key, prim.nonce, prim.message)
    /\ (call.op = "decrypt_buffer" /\ call.how = "layout") =>
        /\ prim.fn = "decrypt_with_checksum"
        /\ prim.nonce = Base64Encode(call.nonce)
        /\ prim.message = call.ct

C8_Witness ==
    /\ call.op = "decrypt_buffer"
    /\ call.how = "layout"
    /\ call.nonce = <<1, 2>>
    /\ call.ct = <<170, 187, 204>>
    /\ prim.message = <<170, 187, 204>>

\* The nonce an envelope carries.
EnvelopeNonce(kind, env) ==
    IF kind = "object" THEN Base64Decode(SubSeq(env, 1, IndexOf(env, 58) - 1))
    ELSE Slice(env, 1, 1 + env[1])

\* C9: every encrypt_object / encrypt_buffer call draws one new 32-byte
\* nonce, hands that nonce to the primitive and puts it in the envelope it
\* returns; the nonce differs from the one of the encryption before, and
\* so does the envelope when the arguments are the same.
C9_NonceFresh ==
    [][(call'.op \in {"encrypt_object", "encrypt_buffer"}
            /\ (call' # call \/ drawn' # drawn))
       => /\ Len(call'.rnd) = NONCE_SIZE
          /\ call'.rnd \notin drawn
          /\ drawn' = drawn \cup {call'.rnd}
          /\ prim'.fn = "encrypt_with_checksum"
          /\ prim'.nonce = Base64Encode(call'.rnd)
          /\ ret'.ok
          /\ EnvelopeNonce(sent'.kind, ret'.val) = call'.rnd
          /\ sent.kind # "none" =>
                /\ sent'.rnd # sent.rnd
                /\ sent'.env # sent.env]_vars

C9_Witness ==
    /\ call.op = "encrypt_object"
    /\ Cardinality(drawn) = 2
    /\ ret.ok

\* C10: encrypt_object returns base64(nonce) ':' base64(ciphertext) with
\* both segments non-empty and one ':'; decrypt_object takes everything
\* before the first ':' as the nonce segment and everything after it,
\* later ':' included, as the ciphertext segment.
C10_ObjectFraming ==
    /\ call.op = "encrypt_object" =>
        LET colon == IndexOf(ret.val, 58)
        IN  /\ colon > 1
            /\ colon < Len(ret.val)
            /\ IndexFrom(ret.val, 58, colon + 1) = 0
            /\ SubSeq(ret.val, 1, colon - 1) = Base64Encode(call.rnd)
            /\ SubSeq(ret.val, colon + 1, Len(ret.val)) =
                   Base64Encode(encrypt_with_checksum(prim.private_key,
                       prim.public_key, prim.nonce, prim.message))
    /\ (call.op = "decrypt_object" /\ IndexOf(call.arg, 58) > 0) =>
        LET colon == IndexOf(call.arg, 58)
        IN  /\ prim.nonce = SubSeq(call.arg, 1, colon - 1)
            /\ prim.message =
                   Base64Decode(SubSeq(call.arg, colon + 1, Len(call.arg)))

=============================================================================
